---- MODULE Spec2Model ----
(***************************************************************************)
(* Model of the batch load job of src/app.py: the JSON array preprocessing *)
(* (read the source object, classify it, write the NDJSON copy), the four  *)
(* SQL statements and the submit/poll loop that runs them on the remote    *)
(* SQL facility.                                                           *)
(*                                                                         *)
(* Text (file contents, JSON documents) is a sequence of one-character     *)
(* strings, so that json.loads and json.dumps are modelled by what they do *)
(* to the characters.  Object keys, table names and SQL text are strings.  *)
(***************************************************************************)
EXTENDS Integers, Sequences, FiniteSets, TLC

(***************************************************************************)
(* JSON values, as json.loads builds them: <<tag>> or <<tag, payload>>.    *)
(* A dict is the sequence of its <<key, value>> items in insertion order.  *)
(***************************************************************************)
JNull == <<"null">>
JBool(b) == <<"bool", b>>
JInt(n) == <<"int", n>>
\* a Python int of 2^31 or more, held as base-2^16 limbs: hi * 65536 + lo
JWide(hi, lo) == <<"wide", <<hi, lo>>>>
JStr(cs) == <<"str", cs>>
JList(vs) == <<"list", vs>>
JObj(items) == <<"obj", items>>

LF == "\n"
QUOTE == "\""
BSLASH == "\\"

\* json.decoder.WHITESPACE: the characters json.loads skips between tokens.
WHITESPACE == {" ", "\t", "\n", "\r"}

DigitChars == <<"0", "1", "2", "3", "4", "5", "6", "7", "8", "9">>

\* one decimal digit 0..9 as its character
DigitChar(d) == DigitChars[d + 1]

\* the value of a digit character
DigitVal(c) == CHOOSE d \in 0..9 : DigitChars[d + 1] = c

IsDigit(c) == \E d \in 0..9 : DigitChars[d + 1] = c

\* int.__repr__ of a non-negative integer
RECURSIVE IntRepr(_)
IntRepr(n) == IF n < 10 THEN <<DigitChar(n)>> ELSE IntRepr(n \div 10) \o <<DigitChar(n % 10)>>

\* int.__repr__ of hi * 65536 + lo, by long division by ten
RECURSIVE WideRepr(_, _)
WideRepr(hi, lo) ==
    IF hi = 0 THEN IntRepr(lo)
    ELSE LET r == (hi % 10) * 65536 + lo
         IN WideRepr(hi \div 10, r \div 10) \o <<DigitChar(r % 10)>>

\* sep.join(parts) for a sequence of texts
RECURSIVE Join(_, _)
Join(parts, sep) ==
    IF Len(parts) = 0 THEN <<>>
    ELSE IF Len(parts) = 1 THEN parts[1]
    ELSE parts[1] \o sep \o Join(Tail(parts), sep)

\* json.encoder.py_encode_basestring_ascii: the escapes of a string's characters
EscapeChar(c) ==
    CASE c = QUOTE -> <<BSLASH, QUOTE>>
      [] c = BSLASH -> <<BSLASH, BSLASH>>
      [] c = LF -> <<BSLASH, "n">>
      [] c = "\t" -> <<BSLASH, "t">>
      [] c = "\r" -> <<BSLASH, "r">>
      [] OTHER -> <<c>>

RECURSIVE EscapeStr(_)
EscapeStr(cs) == IF cs = <<>> THEN <<>> ELSE EscapeChar(Head(cs)) \o EscapeStr(Tail(cs))

EncodeStr(cs) == <<QUOTE>> \o EscapeStr(cs) \o <<QUOTE>>

\* json.dumps(v, separators=(itemSep, keySep))
RECURSIVE Encode(_, _, _)
Encode(v, itemSep, keySep) ==
    CASE v[1] = "null" -> <<"n", "u", "l", "l">>
      [] v[1] = "bool" -> IF v[2] THEN <<"t", "r", "u", "e">> ELSE <<"f", "a", "l", "s", "e">>
      [] v[1] = "int" -> IntRepr(v[2])
      [] v[1] = "wide" -> WideRepr(v[2][1], v[2][2])
      [] v[1] = "str" -> EncodeStr(v[2])
      [] v[1] = "list" ->
            <<"[">> \o Join([i \in 1..Len(v[2]) |-> Encode(v[2][i], itemSep, keySep)], itemSep) \o <<"]">>
      [] v[1] = "obj" ->
            <<"{">> \o Join([i \in 1..Len(v[2]) |->
                               EncodeStr(v[2][i][1]) \o keySep \o Encode(v[2][i][2], itemSep, keySep)],
                            itemSep) \o <<"}">>

\* json_dumps with separators=(',', ':')
json_dumps_Compact(v) == Encode(v, <<",">>, <<":">>)

\* json.dumps(record) with the default separators (', ', ': ')
json_dumps(v) == Encode(v, <<",", " ">>, <<":", " ">>)

(***************************************************************************)
(* json.loads.  A scanner returns <<ok, value, end>>: whether it matched,  *)
(* what it built, and the position after the match.                        *)
(***************************************************************************)
PFail == <<FALSE, JNull, 0>>

\* WHITESPACE.match(s, i).end()
RECURSIVE SkipWs(_, _)
SkipWs(s, i) == IF i <= Len(s) /\ s[i] \in WHITESPACE THEN SkipWs(s, i + 1) ELSE i

\* s[i:i+len(lit)] == lit
HasAt(s, i, lit) == i + Len(lit) - 1 <= Len(s) /\ SubSeq(s, i, i + Len(lit) - 1) = lit

\* py_scanstring(s, i, strict=True): i is the position after the opening quote
RECURSIVE ScanString(_, _, _)
ScanString(s, i, acc) ==
    IF i > Len(s) THEN PFail
    ELSE IF s[i] = QUOTE THEN <<TRUE, acc, i + 1>>
    ELSE IF s[i] = BSLASH THEN
        IF i + 1 > Len(s) THEN PFail
        ELSE CASE s[i + 1] = QUOTE -> ScanString(s, i + 2, Append(acc, QUOTE))
               [] s[i + 1] = BSLASH -> ScanString(s, i + 2, Append(acc, BSLASH))
               [] s[i + 1] = "/" -> ScanString(s, i + 2, Append(acc, "/"))
               [] s[i + 1] = "n" -> ScanString(s, i + 2, Append(acc, LF))
               [] s[i + 1] = "t" -> ScanString(s, i + 2, Append(acc, "\t"))
               [] s[i + 1] = "r" -> ScanString(s, i + 2, Append(acc, "\r"))
               [] OTHER -> PFail
    ELSE IF s[i] \in {LF, "\t", "\r"} THEN PFail
    ELSE ScanString(s, i + 1, Append(acc, s[i]))

\* the digits of an integer part that has reached 2^31
RECURSIVE ScanWide(_, _, _, _)
ScanWide(s, i, hi, lo) ==
    IF i <= Len(s) /\ IsDigit(s[i])
    THEN LET t == 10 * lo + DigitVal(s[i])
         IN ScanWide(s, i + 1, 10 * hi + t \div 65536, t % 65536)
    ELSE <<TRUE, JWide(hi, lo), i>>

\* the digits after the first one of NUMBER_RE's integer part
RECURSIVE ScanDigits(_, _, _)
ScanDigits(s, i, n) ==
    IF i <= Len(s) /\ IsDigit(s[i]) THEN
        IF n < 214748364 \/ (n = 214748364 /\ DigitVal(s[i]) <= 7)
        THEN ScanDigits(s, i + 1, 10 * n + DigitVal(s[i]))
        ELSE ScanWide(s, i, n \div 65536, n % 65536)
    ELSE <<TRUE, JInt(n), i>>

\* NUMBER_RE.match(s, i): 0 | [1-9][0-9]*
ScanNumber(s, i) ==
    IF s[i] = "0" THEN <<TRUE, JInt(0), i + 1>> ELSE ScanDigits(s, i + 1, DigitVal(s[i]))

\* dict(pairs): a repeated key keeps its first position and takes the last value
DictSet(items, k, v) ==
    IF \E i \in 1..Len(items) : items[i][1] = k
    THEN [i \in 1..Len(items) |-> IF items[i][1] = k THEN <<k, v>> ELSE items[i]]
    ELSE Append(items, <<k, v>>)

RECURSIVE ScanOnce(_, _)
RECURSIVE ArrayItems(_, _, _)
RECURSIVE ObjectItems(_, _, _)

\* json.decoder.JSONArray: i is the position after "["
JSONArray(s, i) ==
    LET j == SkipWs(s, i) IN
    IF j <= Len(s) /\ s[j] = "]" THEN <<TRUE, JList(<<>>), j + 1>> ELSE ArrayItems(s, j, <<>>)

ArrayItems(s, i, acc) ==
    LET r == ScanOnce(s, i)
        j == SkipWs(s, r[3])
    IN  IF ~r[1] \/ j > Len(s) THEN PFail
        ELSE IF s[j] = "]" THEN <<TRUE, JList(Append(acc, r[2])), j + 1>>
        ELSE IF s[j] = "," THEN ArrayItems(s, SkipWs(s, j + 1), Append(acc, r[2]))
        ELSE PFail

\* json.decoder.JSONObject: i is the position after "{"
JSONObject(s, i) ==
    LET j == SkipWs(s, i) IN
    IF j > Len(s) THEN PFail
    ELSE IF s[j] = "}" THEN <<TRUE, JObj(<<>>), j + 1>>
    ELSE IF s[j] = QUOTE THEN ObjectItems(s, j + 1, <<>>)
    ELSE PFail

\* one "key": value member and what follows it; i is the position after the key's quote
ObjectItems(s, i, acc) ==
    LET k == ScanString(s, i, <<>>)
        c == SkipWs(s, k[3])
        r == ScanOnce(s, SkipWs(s, c + 1))
        j == SkipWs(s, r[3])
        n == SkipWs(s, j + 1)
    IN  IF ~k[1] \/ c > Len(s) THEN PFail
        ELSE IF s[c] # ":" THEN PFail
        ELSE IF ~r[1] \/ j > Len(s) THEN PFail
        ELSE IF s[j] = "}" THEN <<TRUE, JObj(DictSet(acc, k[2], r[2])), j + 1>>
        ELSE IF s[j] # "," THEN PFail
        ELSE IF n > Len(s) THEN PFail
        ELSE IF s[n] # QUOTE THEN PFail
        ELSE ObjectItems(s, n + 1, DictSet(acc, k[2], r[2]))

\* json.scanner.py_make_scanner._scan_once
ScanOnce(s, i) ==
    IF i > Len(s) THEN PFail
    ELSE CASE s[i] = QUOTE ->
                LET k == ScanString(s, i + 1, <<>>) IN
                IF k[1] THEN <<TRUE, JStr(k[2]), k[3]>> ELSE PFail
           [] s[i] = "{" -> JSONObject(s, i + 1)
           [] s[i] = "[" -> JSONArray(s, i + 1)
           [] HasAt(s, i, <<"n", "u", "l", "l">>) -> <<TRUE, JNull, i + 4>>
           [] HasAt(s, i, <<"t", "r", "u", "e">>) -> <<TRUE, JBool(TRUE), i + 4>>
           [] HasAt(s, i, <<"f", "a", "l", "s", "e">>) -> <<TRUE, JBool(FALSE), i + 5>>
           [] IsDigit(s[i]) -> ScanNumber(s, i)
           [] OTHER -> PFail

\* json.loads(s): <<TRUE, value>>, or <<FALSE, JNull>> where it raises JSONDecodeError
json_loads(s) ==
    LET r == ScanOnce(s, SkipWs(s, 1)) IN
    IF r[1] /\ SkipWs(s, r[3]) = Len(s) + 1 THEN <<TRUE, r[2]>> ELSE <<FALSE, JNull>>

(***************************************************************************)
(* The inputs of a run.  The source object's body is a text, or holds a    *)
(* byte that is not valid UTF-8 (BadByte).                                 *)
(***************************************************************************)

\* the longest JSON array among the inputs, and the most lines of an NDJSON input
MaxItems == 2

\* the records the inputs are built from: flat and nested objects, a nested
\* list, strings holding a newline, a quote and a backslash
Rec1 == JObj(<< <<(<<"i", "d">>), JInt(1)>>, <<(<<"n", "a", "m", "e">>), JStr(<<"a">>)>> >>)
Rec2 == JObj(<< <<(<<"i", "d">>), JInt(2)>>, <<(<<"n", "a", "m", "e">>), JStr(<<"b">>)>> >>)
Rec3 == JObj(<< <<(<<"k">>), JObj(<< <<(<<"i", "d">>), JInt(10)>> >>)>> >>)
Rec4 == JList(<<JStr(<<"a", LF, "b">>), JNull>>)
Rec5 == JStr(<<QUOTE, BSLASH, LF>>)

Records == {Rec1, Rec2, Rec3, Rec4, Rec5}

\* the sequences of at most n of the records rs
SeqsUpTo(rs, n) == UNION {[1..m -> rs] : m \in 0..n}

\* the JSON documents of the inputs: arrays of records, single records, scalars
Documents ==
    {JList(rs) : rs \in SeqsUpTo(Records, MaxItems)}
        \cup Records \cup {JNull, JBool(FALSE), JInt(7), JStr(<<>>)}

\* how an input document is laid out: compact, as json.dumps writes it, one member per line
Layouts == { <<(<<",">>), <<":">>, <<>>>>,
             <<(<<",", " ">>), <<":", " ">>, <<LF>>>>,
             <<(<<",", LF>>), <<":", " ">>, <<" ">>>> }

\* texts that are not one JSON document and not line-delimited JSON either
Malformed == { <<>>,
               <<"[", "1", ",">>,
               <<"[", "1", ",", "]">>,
               <<"[", "0", "1", "]">>,
               <<"{", "k", ":", "1", "}">>,
               <<"[", QUOTE, "a", LF, "b", QUOTE, "]">>,
               <<"{", "}", "{", "}">>,
               <<"n", "u", "l">>,
               <<"{", QUOTE, "a", QUOTE, ":", "1", "}", LF, "o", "o", "p", "s">> }

\* one document on several lines, with a repeated key, with leading whitespace
Unusual == { <<"[", LF, "1", ",", LF, "2", LF, "]", LF>>,
             <<"{", QUOTE, "a", QUOTE, ":", "1", ",", QUOTE, "a", QUOTE, ":", "2", "}">>,
             <<" ", "[", "[", "]", ",", "{", "}", "]">> }

\* line-delimited JSON: one compact record per line, with or without a last newline
NdjsonTexts ==
    { Join([i \in 1..Len(rs) |-> Encode(rs[i], <<",">>, <<":">>)], <<LF>>) \o tail :
        rs \in (SeqsUpTo({Rec1, Rec2, Rec3}, MaxItems) \ SeqsUpTo({Rec1, Rec2, Rec3}, 1)),
        tail \in {<<>>, <<LF>>} }

Texts ==
    { Encode(d, l[1], l[2]) \o l[3] : d \in Documents, l \in Layouts }
        \cup NdjsonTexts \cup Malformed \cup Unusual

BadByte == "<0xff>"

\* the bodies the source object may have
Bodies == Texts \cup { <<"[", BadByte, "]">> }

\* bytes.decode('utf-8'): <<TRUE, text>>, or <<FALSE, <<>>>> where it raises UnicodeDecodeError
utf8_decode(body) ==
    IF \E i \in 1..Len(body) : body[i] = BadByte THEN <<FALSE, <<>>>> ELSE <<TRUE, body>>

(***************************************************************************)
(* The job's arguments (getResolvedOptions) and the SQL statements.        *)
(***************************************************************************)
ArgSets ==
    { [S3_BUCKET_NAME |-> "bkt", SOURCE_FILE_PATH |-> "folder/data.json",
       STAGING_TABLE |-> "stg.x", FINAL_TABLE |-> "fin.x", REDSHIFT_ROLE_ARN |-> "arn:role/load"],
      [S3_BUCKET_NAME |-> "lake", SOURCE_FILE_PATH |-> "processed/d.json",
       STAGING_TABLE |-> "public.t", FINAL_TABLE |-> "public.t", REDSHIFT_ROLE_ARN |-> "arn:role/rs"] }

\* f"s3://{s3_bucket}/{key}"
S3Path(bucket, key) == "s3://" \o bucket \o "/" \o key

\* ProcessedKey that writes the converted text over the source object
ProcessedKey_InPlace(key) == key

\* f"processed/{source_file_key}"
ProcessedKey(key) == "processed/" \o key

\* An SQL text is the sequence of the literal and substituted parts of its f-string.
truncate_staging_sql(staging) == <<"TRUNCATE TABLE ", staging, ";">>

copy_staging_sql(staging, path, role) ==
    <<"COPY ", staging, " FROM '", path, "' IAM_ROLE '", role, "' FORMAT AS JSON 'auto';">>

create_final_sql(staging, final) ==
    <<"CREATE TABLE IF NOT EXISTS ", final, " (LIKE ", staging, ");">>

merge_sql(staging, final) ==
    <<"MERGE INTO ", final, " USING ", staging, " ON ", final, ".id = ", staging, ".id",
      " WHEN MATCHED THEN UPDATE SET name = ", staging, ".name, email = ", staging,
      ".email, age = ", staging, ".age, created_at = ", staging, ".created_at",
      " WHEN NOT MATCHED THEN INSERT (id, name, email, age, created_at) VALUES (",
      staging, ".id, ", staging, ".name, ", staging, ".email, ", staging, ".age, ",
      staging, ".created_at);">>

\* Statements with the copy listed before the truncate
Statements_CopyFirst(staging, final, path, role) ==
    << [name |-> "Copy to Staging", sql |-> copy_staging_sql(staging, path, role)],
       [name |-> "Truncate Staging", sql |-> truncate_staging_sql(staging)],
       [name |-> "Create Final Table", sql |-> create_final_sql(staging, final)],
       [name |-> "Merge (Upsert) Data", sql |-> merge_sql(staging, final)] >>

\* the list `statements` of (name, sql) pairs
Statements(staging, final, path, role) ==
    << [name |-> "Truncate Staging", sql |-> truncate_staging_sql(staging)],
       [name |-> "Copy to Staging", sql |-> copy_staging_sql(staging, path, role)],
       [name |-> "Create Final Table", sql |-> create_final_sql(staging, final)],
       [name |-> "Merge (Upsert) Data", sql |-> merge_sql(staging, final)] >>

(***************************************************************************)
(* The remote SQL facility: the statuses describe_statement reports.       *)
(***************************************************************************)
Running == <<"SUBMITTED", "PICKED", "STARTED">>
Failing == {"FAILED", "ABORTED"}
Terminal == {"FINISHED"} \cup Failing

\* the 'Error' key of a describe_statement response is missing
Absent == "<absent>"
ErrorDetails == {"invalid column", Absent}

\* status_resp.get('Error', 'Unknown Error')
error_msg_of(resp) == IF resp.Error = Absent THEN "Unknown Error" ELSE resp.Error

\* StepFailure without the remote detail
StepFailure_NoDetail(name, msg) == name \o " Failed"

\* Exception(f"{name} Failed: {error_msg}")
StepFailure(name, msg) == name \o " Failed: " \o msg

(***************************************************************************)
(* State.                                                                  *)
(***************************************************************************)
VARIABLES
    args,           \* the resolved job arguments
    store,          \* the bucket: object key -> body
    pc,             \* where the script is
    file_content,   \* the decoded text of the source object
    branch,         \* which way the preprocessing went: "array", "single", "ndjson"
    ndjson_content, \* the text to upload (array branch)
    s3_path,        \* the location COPY loads from
    put_calls,      \* the put_object calls made, as <<key, body>>
    statements,     \* the list of (name, sql)
    idx,            \* the position of the loop in `statements`
    calls,          \* the execute_statement calls made: the (name, sql) passed
    remote,         \* the statements the facility holds: Id -> [Status, Error]
    statement_id,   \* response['Id'] of the current statement
    observed,       \* per submitted statement, the last status a poll returned ("" if none)
    error           \* the message of the exception that ended the run ("" if none)

\* a text variable the script has not assigned yet
Unset == <<"<unset>">>

vars == <<args, store, pc, file_content, branch, ndjson_content, s3_path, put_calls,
          statements, idx, calls, remote, statement_id, observed, error>>

prepVars == <<file_content, branch, ndjson_content, s3_path, put_calls, store>>
execVars == <<statements, idx, calls, remote, statement_id, observed>>

\* the run ends with the exception `msg` raised
Raise(msg) == pc' = "failed" /\ error' = msg

(***************************************************************************)
(* JSON array preprocessing (lines 35-74).                                 *)
(***************************************************************************)

\* isinstance(data, list)
IsList(data) == data[1] = "list"

\* NdjsonOf that dumps the list itself, on one line
NdjsonOf_Whole(data) == json_dumps(data)

\* NdjsonOf that keeps the array's commas between the lines
NdjsonOf_CommaLines(data) == Join([i \in 1..Len(data[2]) |-> json_dumps(data[2][i])], <<",", LF>>)

\* '\n'.join([json.dumps(record) for record in data])
NdjsonOf(data) == Join([i \in 1..Len(data[2]) |-> json_dumps(data[2][i])], <<LF>>)

\* s3_client.get_object(...)['Body'].read().decode('utf-8'): the call raises, the
\* body does not decode, or file_content is set
ReadSource ==
    /\ pc = "read"
    /\ \/ Raise("get_object failed")
          /\ UNCHANGED file_content
       \/ /\ args.SOURCE_FILE_PATH \in DOMAIN store
          /\ LET d == utf8_decode(store[args.SOURCE_FILE_PATH]) IN
             IF d[1]
             THEN file_content' = d[2] /\ pc' = "parse" /\ UNCHANGED error
             ELSE Raise("UnicodeDecodeError") /\ UNCHANGED file_content
    /\ UNCHANGED <<args, store, branch, ndjson_content, s3_path, put_calls>>
    /\ UNCHANGED execVars

\* Classify that uploads a copy of every document that parses, array or not
Classify_UploadsSingle ==
    /\ pc = "parse"
    /\ LET r == json_loads(file_content) IN
       IF r[1]
       THEN /\ branch' = IF IsList(r[2]) THEN "array" ELSE "single"
            /\ ndjson_content' = IF IsList(r[2]) THEN NdjsonOf(r[2]) ELSE json_dumps(r[2])
            /\ pc' = "put"
            /\ UNCHANGED s3_path
       ELSE /\ branch' = "ndjson"
            /\ s3_path' = S3Path(args.S3_BUCKET_NAME, args.SOURCE_FILE_PATH)
            /\ pc' = "plan"
            /\ UNCHANGED ndjson_content
    /\ UNCHANGED <<args, store, file_content, put_calls, error>>
    /\ UNCHANGED execVars

\* Classify without the `except json.JSONDecodeError`: the outer handler re-raises
Classify_RaisesOnDecodeError ==
    /\ pc = "parse"
    /\ LET r == json_loads(file_content) IN
       IF r[1] /\ IsList(r[2])
       THEN /\ branch' = "array"
            /\ ndjson_content' = NdjsonOf(r[2])
            /\ pc' = "put"
            /\ UNCHANGED <<s3_path, error>>
       ELSE IF r[1]
       THEN /\ branch' = "single"
            /\ s3_path' = S3Path(args.S3_BUCKET_NAME, args.SOURCE_FILE_PATH)
            /\ pc' = "plan"
            /\ UNCHANGED <<ndjson_content, error>>
       ELSE /\ Raise("JSONDecodeError")
            /\ UNCHANGED <<branch, s3_path, ndjson_content>>
    /\ UNCHANGED <<args, store, file_content, put_calls>>
    /\ UNCHANGED execVars

\* json.loads(file_content) and the three-way branch
Classify ==
    /\ pc = "parse"
    /\ LET r == json_loads(file_content) IN
       IF r[1] /\ IsList(r[2])
       THEN /\ branch' = "array"
            /\ ndjson_content' = NdjsonOf(r[2])
            /\ pc' = "put"
            /\ UNCHANGED s3_path
       ELSE /\ branch' = IF r[1] THEN "single" ELSE "ndjson"
            /\ s3_path' = S3Path(args.S3_BUCKET_NAME, args.SOURCE_FILE_PATH)
            /\ pc' = "plan"
            /\ UNCHANGED ndjson_content
    /\ UNCHANGED <<args, store, file_content, put_calls, error>>
    /\ UNCHANGED execVars

\* PutProcessed that swallows a failed upload and falls back to the original object
PutProcessed_SwallowsError ==
    /\ pc = "put"
    /\ LET processed_key == ProcessedKey(args.SOURCE_FILE_PATH) IN
       /\ put_calls' = Append(put_calls, <<processed_key, ndjson_content>>)
       /\ \/ /\ s3_path' = S3Path(args.S3_BUCKET_NAME, args.SOURCE_FILE_PATH)
             /\ UNCHANGED store
          \/ /\ store' = (processed_key :> ndjson_content) @@ store
             /\ s3_path' = S3Path(args.S3_BUCKET_NAME, processed_key)
       /\ pc' = "plan"
       /\ UNCHANGED error
    /\ UNCHANGED <<args, file_content, branch, ndjson_content>>
    /\ UNCHANGED execVars

\* s3_client.put_object(Key=processed_key, Body=ndjson_content): the call raises, or
\* the object is written and s3_path points to it
PutProcessed ==
    /\ pc = "put"
    /\ LET processed_key == ProcessedKey(args.SOURCE_FILE_PATH) IN
       /\ put_calls' = Append(put_calls, <<processed_key, ndjson_content>>)
       /\ \/ Raise("put_object failed")
             /\ UNCHANGED <<store, s3_path>>
          \/ /\ store' = (processed_key :> ndjson_content) @@ store
             /\ s3_path' = S3Path(args.S3_BUCKET_NAME, processed_key)
             /\ pc' = "plan"
             /\ UNCHANGED error
    /\ UNCHANGED <<args, file_content, branch, ndjson_content>>
    /\ UNCHANGED execVars

(***************************************************************************)
(* Redshift execution (lines 76-150).                                      *)
(***************************************************************************)

\* the SQL definitions and the list `statements`; the loop starts at its first item
BuildPlan ==
    /\ pc = "plan"
    /\ statements' = Statements(args.STAGING_TABLE, args.FINAL_TABLE, s3_path,
                                args.REDSHIFT_ROLE_ARN)
    /\ idx' = 1
    /\ pc' = "submit"
    /\ UNCHANGED <<args, error, calls, remote, statement_id, observed>>
    /\ UNCHANGED prepVars

\* Submit that calls execute_statement again when the call raised
Submit_RetriesOnError ==
    /\ pc = "submit"
    /\ calls' = Append(calls, statements[idx])
    /\ \/ UNCHANGED <<pc, error, remote, statement_id, observed>>
       \/ /\ remote' = Append(remote, [Status |-> Running[1], Error |-> Absent])
          /\ statement_id' = Len(remote) + 1
          /\ observed' = Append(observed, "")
          /\ pc' = "poll"
          /\ UNCHANGED error
    /\ UNCHANGED <<args, statements, idx>>
    /\ UNCHANGED prepVars

\* Submit that logs a raised call and goes on with the next statement
Submit_SkipsOnError ==
    /\ pc = "submit"
    /\ calls' = Append(calls, statements[idx])
    /\ \/ /\ IF idx < Len(statements)
                THEN idx' = idx + 1 /\ pc' = "submit"
                ELSE pc' = "done" /\ UNCHANGED idx
          /\ UNCHANGED <<error, remote, statement_id, observed>>
       \/ /\ remote' = Append(remote, [Status |-> Running[1], Error |-> Absent])
          /\ statement_id' = Len(remote) + 1
          /\ observed' = Append(observed, "")
          /\ pc' = "poll"
          /\ UNCHANGED <<error, idx>>
    /\ UNCHANGED <<args, statements>>
    /\ UNCHANGED prepVars

\* client.execute_statement(Sql=sql): the call raises, or the facility takes the
\* statement and returns its Id
Submit ==
    /\ pc = "submit"
    /\ calls' = Append(calls, statements[idx])
    /\ \/ Raise("execute_statement failed")
          /\ UNCHANGED <<remote, statement_id, observed>>
       \/ /\ remote' = Append(remote, [Status |-> Running[1], Error |-> Absent])
          /\ statement_id' = Len(remote) + 1
          /\ observed' = Append(observed, "")
          /\ pc' = "poll"
          /\ UNCHANGED error
    /\ UNCHANGED <<args, statements, idx>>
    /\ UNCHANGED prepVars

\* PollBranch that keeps polling a statement that has finished
PollBranch_NeverBreaks(status) ==
    IF status \in {"FAILED", "ABORTED"} THEN "raise" ELSE "sleep"

\* PollBranch that gives up on a statement that is not terminal at the first poll
PollBranch_GivesUp(status) ==
    IF status = "FINISHED" THEN "break" ELSE "raise"

\* PollBranch with ABORTED not among the failures and taken for a success
PollBranch_AbortedBreaks(status) ==
    IF status = "FAILED" THEN "raise"
    ELSE IF status \in {"FINISHED", "ABORTED"} THEN "break"
    ELSE "sleep"

\* PollBranch that does not wait: whatever is not a failure ends the loop
PollBranch_NoWait(status) ==
    IF status \in {"FAILED", "ABORTED"} THEN "raise" ELSE "break"

\* what the loop does with a polled status: raise, leave the loop, or sleep
PollBranch(status) ==
    IF status \in {"FAILED", "ABORTED"} THEN "raise"
    ELSE IF status = "FINISHED" THEN "break"
    ELSE "sleep"

\* AfterBreak with the loop one statement short
AfterBreak_SkipsLast ==
    IF idx < Len(statements) - 1
    THEN idx' = idx + 1 /\ pc' = "submit"
    ELSE pc' = "done" /\ UNCHANGED idx

\* the step after a finished one: the next statement, or the end of the script
AfterBreak ==
    IF idx < Len(statements)
    THEN idx' = idx + 1 /\ pc' = "submit"
    ELSE pc' = "done" /\ UNCHANGED idx

\* client.describe_statement(Id=statement_id) and the branch on its Status
Poll ==
    /\ pc = "poll"
    /\ \/ Raise("describe_statement failed")
          /\ UNCHANGED <<observed, idx>>
       \/ LET status_resp == remote[statement_id]
              status == status_resp.Status
          IN  /\ observed' = [observed EXCEPT ![Len(observed)] = status]
              /\ CASE PollBranch(status) = "raise" ->
                        /\ Raise(StepFailure(statements[idx].name, error_msg_of(status_resp)))
                        /\ UNCHANGED idx
                   [] PollBranch(status) = "break" ->
                        AfterBreak /\ UNCHANGED error
                   [] OTHER ->
                        pc' = "sleep" /\ UNCHANGED <<idx, error>>
    /\ UNCHANGED <<args, statements, calls, remote, statement_id>>
    /\ UNCHANGED prepVars

\* time.sleep(2)
Sleep ==
    /\ pc = "sleep"
    /\ pc' = "poll"
    /\ UNCHANGED <<args, error>>
    /\ UNCHANGED prepVars
    /\ UNCHANGED execVars

\* the facility moves a statement it holds forward: to a later running status, or to
\* a terminal one (FAILED or ABORTED with or without an 'Error' text)
RemoteStep ==
    /\ \E id \in 1..Len(remote) :
        /\ remote[id].Status \notin Terminal
        /\ \E r \in [Status : {Running[i] : i \in 1..Len(Running)} \cup Terminal,
                     Error : ErrorDetails] :
            /\ r.Status \in Terminal
               \/ \E i, j \in 1..Len(Running) :
                    i < j /\ Running[i] = remote[id].Status /\ Running[j] = r.Status
            /\ r.Status \notin Failing => r.Error = Absent
            /\ remote' = [remote EXCEPT ![id] = r]
    /\ UNCHANGED <<args, pc, error, statements, idx, calls, statement_id, observed>>
    /\ UNCHANGED prepVars

(***************************************************************************)
(* parquet_convertor.py is a second program, run on its own from a local   *)
(* file; its state is declared here so that the specifications of the job  *)
(* can say that the job leaves it alone.                                   *)
(***************************************************************************)
VARIABLES
    mpc,            \* where convert_to_parquet is
    input_file,     \* the text of the file at input_path (NoFile if there is none)
    data,           \* the value json.load returned
    df,             \* the DataFrame: [columns, dtypes, rows]
    output_file,    \* the file at output_path (NoFile if there is none)
    exit_status,    \* the status the process ended with ("" while it runs)
    raised          \* the exception caught at line 31 ("" if none)

matVars == <<mpc, input_file, data, df, output_file, exit_status, raised>>

NoFile == <<"<no file>">>

\* convert_to_parquet is not running
MatIdle ==
    /\ mpc = "off"
    /\ input_file = NoFile
    /\ data = Unset
    /\ df = Unset
    /\ output_file = NoFile
    /\ exit_status = ""
    /\ raised = ""

(***************************************************************************)
(* The warehouse the statements run in.  The specifications of one run of  *)
(* the job leave its tables out; the specification of re-runs has them.    *)
(***************************************************************************)
VARIABLES
    tables,         \* table name -> its rows (NoTable if the table does not exist)
    run,            \* how many times the job was started
    initial_final   \* the final table as it was before the first run

whVars == <<tables, run, initial_final>>

\* the warehouse is left out
WhIdle == tables = <<>> /\ run = 1 /\ initial_final = <<>>

\* the script's variables when the interpreter starts it, the source object
\* holding one of `bodies`
StartOn(bodies) ==
    /\ args \in ArgSets
    /\ \E body \in bodies : store = (args.SOURCE_FILE_PATH :> body)
    /\ pc = "read"
    /\ file_content = Unset
    /\ branch = ""
    /\ ndjson_content = Unset
    /\ s3_path = ""
    /\ put_calls = <<>>
    /\ statements = <<>>
    /\ idx = 0
    /\ calls = <<>>
    /\ remote = <<>>
    /\ statement_id = 0
    /\ observed = <<>>
    /\ error = ""

Init == StartOn(Bodies) /\ MatIdle /\ WhIdle

Next ==
    \/ ReadSource /\ UNCHANGED <<matVars, whVars>>
    \/ Classify /\ UNCHANGED <<matVars, whVars>>
    \/ PutProcessed /\ UNCHANGED <<matVars, whVars>>
    \/ BuildPlan /\ UNCHANGED <<matVars, whVars>>
    \/ Submit /\ UNCHANGED <<matVars, whVars>>
    \/ Poll /\ UNCHANGED <<matVars, whVars>>
    \/ Sleep /\ UNCHANGED <<matVars, whVars>>
    \/ RemoteStep /\ UNCHANGED <<matVars, whVars>>

Spec == Init /\ [][Next]_<<vars, matVars, whVars>>

(***************************************************************************)
(* Properties of the executor.                                             *)
(***************************************************************************)
StepNames == <<"Truncate Staging", "Copy to Staging", "Create Final Table", "Merge (Upsert) Data">>

Ended == pc \in {"done", "failed"}

\* the names passed to execute_statement so far, in call order
CalledNames == [i \in 1..Len(calls) |-> calls[i].name]

\* the k-th submitted statement was last seen by a poll as FAILED or ABORTED
SeenFailing(k) == k \in 1..Len(observed) /\ observed[k] \in Failing

\* the k-th submitted statement was seen by a poll as FINISHED
SeenFinished(k) == k \in 1..Len(observed) /\ observed[k] = "FINISHED"

\* C1 (fail-fast): once a poll has seen the statement of step k FAILED or ABORTED,
\* the run has failed and execute_statement has been called exactly k times, for
\* steps 1..k in order; being an invariant, no later call is ever made.
C1_FailFast ==
    \A k \in 1..Len(StepNames) :
        SeenFailing(k) =>
            /\ pc = "failed"
            /\ Len(calls) = k
            /\ CalledNames = SubSeq(StepNames, 1, k)

C1_Witness == SeenFailing(2) /\ observed[2] = "ABORTED" /\ Len(calls) = 2

\* C2 (strict sequencing): the i-th call of execute_statement is for step i and,
\* from the second on, is made only after a poll saw the statement before it
\* FINISHED; at most one statement held by the facility is not terminal; the
\* Merge step is called only after the three before it were seen FINISHED.
C2_StrictSequence ==
    /\ Len(calls) <= Len(StepNames)
    /\ \A i \in 1..Len(calls) :
        /\ calls[i].name = StepNames[i]
        /\ i > 1 => SeenFinished(i - 1) /\ remote[i - 1].Status = "FINISHED"
    /\ Cardinality({id \in 1..Len(remote) : remote[id].Status \notin Terminal}) <= 1
    /\ (\E i \in 1..Len(calls) : calls[i].name = "Merge (Upsert) Data") =>
            SeenFinished(1) /\ SeenFinished(2) /\ SeenFinished(3)

C2_Witness == Len(calls) = 4 /\ pc = "sleep" /\ remote[4].Status = "STARTED"

\* C3 (failure reporting): when a poll has seen the statement of the step named
\* N FAILED or ABORTED and the response held the error text D, the run has failed
\* with the message "N Failed: D" and never reaches the end of the script; for
\* the Copy step the message starts with "Copy to Staging".
C3_FailureReport ==
    \A k \in 1..Len(StepNames) :
        SeenFailing(k) /\ remote[k].Error # Absent =>
            /\ pc = "failed"
            /\ error = StepNames[k] \o " Failed: " \o remote[k].Error
            /\ k = 2 => error = "Copy to Staging Failed: " \o remote[k].Error

C3_Witness ==
    /\ SeenFailing(2)
    /\ observed[2] = "FAILED"
    /\ remote[2].Error = "invalid column"
    /\ error = "Copy to Staging Failed: invalid column"

\* the four statements were called in order and each was seen FINISHED
AllFourFinished ==
    /\ CalledNames = StepNames
    /\ \A i \in 1..Len(StepNames) : SeenFinished(i)

\* C4 (success condition): a run that has ended has ended in success exactly when
\* the four statements were called in the order Truncate, Copy, Create, Merge and
\* each was seen FINISHED; and the poll that sees the fourth FINISHED, after the
\* others were, ends the run in success.
C4_SuccessIff ==
    /\ [](Ended => (pc = "done" <=> AllFourFinished))
    /\ [][AllFourFinished' /\ ~AllFourFinished => pc' = "done"]_vars

C4_Witness == pc = "done" /\ AllFourFinished

(***************************************************************************)
(* Properties of the preprocessing.                                        *)
(***************************************************************************)

\* the lines of a text: the pieces between its newlines; a last newline ends the
\* last line and starts no new one, and the empty text has no lines
RECURSIVE SplitLines(_)
SplitLines(t) ==
    IF t = <<>> THEN <<>>
    ELSE IF \E n \in 1..Len(t) : t[n] = LF
    THEN LET n == CHOOSE m \in 1..Len(t) : t[m] = LF /\ \A q \in 1..(m - 1) : t[q] # LF
         IN  <<SubSeq(t, 1, n - 1)>> \o SplitLines(SubSeq(t, n + 1, Len(t)))
    ELSE <<t>>

\* every line of the text parses as one JSON document
ValidNdjson(t) == LET lines == SplitLines(t) IN \A j \in 1..Len(lines) : json_loads(lines[j])[1]

\* the body of the source object, and what it parses to
SourceBody == store[args.SOURCE_FILE_PATH]
SourceDoc == json_loads(SourceBody)
SourceIsArray == LET d == SourceDoc IN d[1] /\ d[2][1] = "list"
SourceIsSingle == LET d == SourceDoc IN d[1] /\ d[2][1] # "list"

OriginalLocation == "s3://" \o args.S3_BUCKET_NAME \o "/" \o args.SOURCE_FILE_PATH
ProcessedLocation == "s3://" \o args.S3_BUCKET_NAME \o "/processed/" \o args.SOURCE_FILE_PATH

\* the read and the decoding succeeded
ReadOk == file_content # Unset

\* the preprocessing ended without raising
PrepDone == pc = "plan" \/ statements # <<>>

\* C5 (array normalisation): when the source is the serialisation of a JSON array A
\* and the preprocessing has ended, exactly one object was written, at key
\* "processed/" + source key; its lines are as many as A's elements, line j parses
\* to element j of A; and that location is the load source.
C5_ArrayNormalised ==
    LET d == SourceDoc
        pkey == "processed/" \o args.SOURCE_FILE_PATH
        A == d[2][2]
        lines == SplitLines(store[pkey])
    IN  PrepDone /\ d[1] /\ d[2][1] = "list" =>
            /\ pkey \in DOMAIN store
            /\ put_calls = << <<pkey, store[pkey]>> >>
            /\ s3_path = ProcessedLocation
            /\ Len(lines) = Len(A)
            /\ \A j \in 1..Len(A) : json_loads(lines[j]) = <<TRUE, A[j]>>

C5_Witness ==
    /\ PrepDone /\ SourceIsArray
    /\ SourceDoc[2][2] = <<Rec4, Rec1>>
    /\ Len(SplitLines(store["processed/" \o args.SOURCE_FILE_PATH])) = 2

\* C6 (non-array branch): when the source parses as one JSON document that is not
\* a list, no put_object call is ever made, the bucket holds the source object
\* alone and, once the preprocessing has ended, the load source is the original
\* location; in any run there is at most one put_object call, and only for a
\* source that is a JSON array.
C6_SingleUntouched ==
    /\ ReadOk /\ SourceIsSingle =>
        /\ put_calls = <<>>
        /\ DOMAIN store = {args.SOURCE_FILE_PATH}
        /\ PrepDone => s3_path = OriginalLocation
    /\ Len(put_calls) <= 1
    /\ put_calls # <<>> => ReadOk /\ SourceIsArray

C6_Witness == PrepDone /\ SourceDoc = <<TRUE, Rec1>> /\ s3_path = OriginalLocation /\ Len(calls) = 1

\* C7 (parse failure is handled): when the source was read and does not parse as
\* one JSON document, the classification raises nothing (a run that failed has
\* called execute_statement), makes no put_object call, leaves the bucket alone
\* and gives the original location; and every step the script takes from there
\* leads on to the call of execute_statement for the first statement: from the
\* classification to the plan, from the plan to the call, and then the call.
C7_Inv ==
    ReadOk /\ ~SourceDoc[1] /\ pc # "parse" =>
        /\ put_calls = <<>>
        /\ DOMAIN store = {args.SOURCE_FILE_PATH}
        /\ s3_path = OriginalLocation
        /\ pc = "failed" => Len(calls) >= 1
        /\ Len(calls) >= 1 => calls[1].name = "Truncate Staging"

C7_ParseFailureHandled ==
    /\ []C7_Inv
    /\ [][ReadOk /\ ~SourceDoc[1] /\ calls = <<>> /\ pc' # pc =>
            \/ pc = "parse" /\ pc' = "plan"
            \/ pc = "plan" /\ pc' = "submit"
            \/ pc = "submit" /\ Len(calls') = 1 /\ calls'[1].name = "Truncate Staging"]_vars

C7_Witness ==
    /\ ReadOk
    /\ SourceBody = Encode(Rec1, <<",">>, <<":">>) \o <<LF>> \o Encode(Rec2, <<",">>, <<":">>)
    /\ Len(calls) = 1

\* C8 (fixed plan): once built, the plan is the four steps Truncate, Copy, Create,
\* Merge in that order, on the given tables; the Copy step loads from the
\* processed/ location if the source is a JSON array and from the original
\* location otherwise; and no step of the run changes the plan.
C8_Inv ==
    statements # <<>> =>
        /\ [i \in 1..Len(statements) |-> statements[i].name] = StepNames
        /\ statements[1].sql[2] = args.STAGING_TABLE
        /\ statements[2].sql[2] = args.STAGING_TABLE
        /\ statements[2].sql[4] = IF SourceIsArray THEN ProcessedLocation ELSE OriginalLocation
        /\ statements[2].sql[4] = s3_path
        /\ statements[2].sql[6] = args.REDSHIFT_ROLE_ARN
        /\ statements[3].sql[2] = args.FINAL_TABLE
        /\ statements[4].sql[2] = args.FINAL_TABLE

C8_FixedPlan ==
    /\ []C8_Inv
    /\ [][statements # <<>> => statements' = statements]_vars

C8_Witness == statements # <<>> /\ SourceIsArray /\ idx = 3 /\ pc = "poll"

\* the put_object call was made and wrote nothing
PutFailed == put_calls # <<>> /\ ("processed/" \o args.SOURCE_FILE_PATH) \notin DOMAIN store

\* C9 (transport errors pre-empt SQL): when get_object or put_object has raised,
\* the run has failed with that error and execute_statement was never called.
C9_TransportPreempts ==
    (error = "get_object failed" \/ PutFailed) =>
        /\ pc = "failed"
        /\ error \in {"get_object failed", "put_object failed"}
        /\ calls = <<>>
        /\ remote = <<>>

C9_Witness == PutFailed /\ pc = "failed" /\ error = "put_object failed"

\* the calls of execute_statement that passed the Copy step
CopyCalls == {i \in 1..Len(calls) : calls[i].name = "Copy to Staging"}

\* the keys of the objects at the location a COPY statement loads from
KeysAt(sql) == {k \in DOMAIN store : "s3://" \o args.S3_BUCKET_NAME \o "/" \o k = sql[4]}

\* C10 as stated (load-source validity): whenever the Copy step is submitted, the
\* object it loads from holds valid line-delimited JSON, whatever the
\* classification of the source.
C10_LoadSourceValid ==
    \A i \in CopyCalls :
        /\ KeysAt(calls[i].sql) # {}
        /\ \A k \in KeysAt(calls[i].sql) : ValidNdjson(store[k])

\* C10 as amended: whenever the Copy step is submitted, the location it loads from
\* is an object of the bucket; for a source classified as a JSON array that object
\* holds valid line-delimited JSON; in the other two classifications it is the
\* source object itself, unvalidated, so it holds valid line-delimited JSON exactly
\* when the source already did.
C10_ArrayLoadSourceValid ==
    \A i \in CopyCalls :
        /\ KeysAt(calls[i].sql) # {}
        /\ \A k \in KeysAt(calls[i].sql) :
            IF SourceIsArray
            THEN k # args.SOURCE_FILE_PATH /\ ValidNdjson(store[k])
            ELSE k = args.SOURCE_FILE_PATH /\ store[k] = SourceBody

C10_Witness ==
    /\ CopyCalls # {}
    /\ SourceIsArray
    /\ SourceDoc[2][2] = <<Rec5, Rec3>>
    /\ \E k \in KeysAt(calls[2].sql) : Len(SplitLines(store[k])) = 2

\* the run failed before the plan was built: the preprocessing raised
PrepFailed == pc = "failed" /\ statements = <<>>

\* the source object's body holds a byte that is not valid UTF-8
BodyUndecodable == \E i \in 1..Len(SourceBody) : SourceBody[i] = BadByte

\* C11 as stated (normalisation fails only on a read failure): whenever the
\* preprocessing has raised, it is get_object that raised.
C11_OnlyReadFails == PrepFailed => error = "get_object failed"

\* C11 as amended: the preprocessing raises only when get_object raises, when the
\* body it returned is not valid UTF-8, or when the put_object of the processed/
\* copy (array branch only) raises; for every body that decodes, whatever its
\* JSON shape, the classification raises nothing and, unless that put_object
\* raises, the preprocessing ends with a load location.
C11_FailsOnlyOnTransportOrDecoding ==
    /\ PrepFailed =>
        \/ error = "get_object failed" /\ ~ReadOk
        \/ error = "UnicodeDecodeError" /\ ~ReadOk /\ BodyUndecodable
        \/ error = "put_object failed" /\ ReadOk /\ PutFailed /\ SourceIsArray
    /\ ReadOk /\ pc \notin {"parse", "put"} /\ ~PutFailed =>
        PrepDone /\ s3_path \in {OriginalLocation, ProcessedLocation}

C11_Witness == ReadOk /\ ~SourceDoc[1] /\ PrepDone /\ s3_path = OriginalLocation /\ pc = "done"

(***************************************************************************)
(* Further properties of the executor and of the preprocessing.            *)
(***************************************************************************)

\* C13 (no retries): execute_statement is called at most four times in a run and
\* never twice for the same step, whatever the facility reports and whichever
\* call raises; and once the run has failed no call is made any more.
C13_NoRetries ==
    /\ [](/\ Len(calls) <= Len(StepNames)
          /\ \A i, j \in 1..Len(calls) : calls[i].name = calls[j].name => i = j)
    /\ [][pc = "failed" => pc' = "failed" /\ calls' = calls]_vars

C13_Witness ==
    /\ pc = "failed"
    /\ Len(calls) = 3
    /\ Len(remote) = 2
    /\ error = "execute_statement failed"

\* execute_statement raised: a call was made and the facility took no statement
SubmitRaised == Len(calls) > Len(remote)

\* C19 (client errors abort): when the execute_statement call of a step, or a
\* describe_statement call, itself raises, the run has failed with that error,
\* and from then on no statement is polled or submitted: the script takes no
\* further step.
C19_ClientErrorsAbort ==
    /\ [](SubmitRaised =>
            pc = "failed" /\ error = "execute_statement failed" /\ Len(calls) = Len(remote) + 1)
    /\ [](error = "describe_statement failed" =>
            pc = "failed" /\ Len(calls) = Len(remote) /\ ~SeenFailing(Len(observed)))
    /\ [][pc = "failed" =>
            /\ pc' = "failed" /\ error' = error
            /\ calls' = calls /\ observed' = observed /\ idx' = idx]_vars

C19_Witness ==
    /\ pc = "failed"
    /\ error = "describe_statement failed"
    /\ Len(calls) = 2
    /\ observed[2] = "PICKED"
    /\ remote[2].Status = "FINISHED"

\* C20 (the source object is never overwritten, and the write precedes the SQL):
\* at most one put_object call is made, its key is "processed/" + source key and
\* differs from the source key; no step changes the body of the source object;
\* and a put_object call is made only while execute_statement was never called.
C20_SourceKept ==
    /\ [](/\ Len(put_calls) <= 1
          /\ \A i \in 1..Len(put_calls) :
                /\ put_calls[i][1] = "processed/" \o args.SOURCE_FILE_PATH
                /\ put_calls[i][1] # args.SOURCE_FILE_PATH
          /\ ReadOk => SourceBody = file_content)
    /\ [][SourceBody' = SourceBody]_vars
    /\ [][put_calls' # put_calls => calls = <<>> /\ calls' = <<>> /\ remote' = <<>>]_vars

C20_Witness ==
    /\ Len(put_calls) = 1
    /\ args.SOURCE_FILE_PATH = "processed/d.json"
    /\ "processed/processed/d.json" \in DOMAIN store
    /\ Len(calls) = 1

\* the text of the spec's example input, and its two records written compactly
ExampleInput == Encode(JList(<<Rec1, Rec2>>), <<",">>, <<":">>)
ExampleCompactLines ==
    <<"{", QUOTE, "i", "d", QUOTE, ":", "1", ",", QUOTE, "n", "a", "m", "e", QUOTE, ":",
      QUOTE, "a", QUOTE, "}", LF,
      "{", QUOTE, "i", "d", QUOTE, ":", "2", ",", QUOTE, "n", "a", "m", "e", QUOTE, ":",
      QUOTE, "b", QUOTE, "}">>
ExampleDefaultLines ==
    <<"{", QUOTE, "i", "d", QUOTE, ":", " ", "1", ",", " ", QUOTE, "n", "a", "m", "e", QUOTE, ":", " ",
      QUOTE, "a", QUOTE, "}", LF,
      "{", QUOTE, "i", "d", QUOTE, ":", " ", "2", ",", " ", QUOTE, "n", "a", "m", "e", QUOTE, ":", " ",
      QUOTE, "b", QUOTE, "}">>

\* the body written by the put_object call of the run, if one was made
WrittenBodies == {put_calls[i][2] : i \in 1..Len(put_calls)}

\* C18 as stated (compact line format): each written line is the compact
\* serialisation of its element, with no whitespace between tokens; the example
\* input gives exactly its two compact lines joined by one newline.
C18_CompactLines ==
    \A body \in WrittenBodies :
        /\ \A i \in 1..Len(body) : body[i] # " "
        /\ SourceBody = ExampleInput => body = ExampleCompactLines

\* C18 as amended: each written line is the serialisation of its element with
\* json.dumps' default separators, ", " between items and ": " after a key, on
\* one line; the example input gives {"id": 1, "name": "a"} and
\* {"id": 2, "name": "b"} joined by one newline, with no newline at the end.
C18_DefaultSeparatorLines ==
    \A body \in WrittenBodies :
        LET A == SourceDoc[2][2]
            lines == SplitLines(body)
        IN  /\ Len(lines) = Len(A)
            /\ \A j \in 1..Len(A) : lines[j] = Encode(A[j], <<",", " ">>, <<":", " ">>)
            /\ body # <<>> => body[Len(body)] # LF
            /\ SourceBody = ExampleInput => body = ExampleDefaultLines

C18_Witness == SourceBody = ExampleInput /\ WrittenBodies = {ExampleDefaultLines} /\ PrepDone

\* C14 (unbounded polling): while the facility holds the current statement in a
\* status that is not terminal, every step of the script is the poll that
\* returns that status and goes to sleep, the sleep that goes back to the poll,
\* or a describe_statement call that raises; the loop keeps the same statement
\* and step, submits nothing and never ends the run in success; nothing in the
\* state counts the polls.
C14_UnboundedPolling ==
    [][(pc \in {"poll", "sleep"} /\ remote[statement_id].Status \notin Terminal /\ pc' # pc) =>
            (/\ \/ pc = "poll" /\ pc' = "sleep" /\ error' = error
                \/ pc = "sleep" /\ pc' = "poll" /\ error' = error
                \/ pc = "poll" /\ pc' = "failed" /\ error' = "describe_statement failed"
             /\ idx' = idx
             /\ statement_id' = statement_id
             /\ calls' = calls)]_vars

C14_Witness ==
    /\ pc = "sleep"
    /\ idx = 3
    /\ observed[3] = "STARTED"
    /\ remote[3].Status = "STARTED"

(***************************************************************************)
(* Termination.  The interpreter runs the script on: it takes the script's *)
(* next step whenever there is one.  Every step of the script moves pc and *)
(* the script has a step wherever it has not ended, so this is fairness of *)
(* the moves of pc.  A fair facility moves every statement it holds on     *)
(* until the statement is terminal.  The runs start from one argument set  *)
(* and three source bodies, one for each classification.                   *)
(***************************************************************************)
Positions == {"read", "parse", "put", "plan", "submit", "poll", "sleep", "done", "failed"}
ScriptRuns == pc \notin {"done", "failed"} /\ pc' \in Positions \ {pc}

LiveBodies == {ExampleInput, Encode(Rec1, <<",">>, <<":">>), <<"[", "1", ",">>}

LiveInit == Init /\ args.S3_BUCKET_NAME = "bkt" /\ SourceBody \in LiveBodies

LiveSpec ==
    /\ LiveInit
    /\ [][Next]_<<vars, matVars, whVars>>
    /\ WF_pc(ScriptRuns)
    /\ WF_vars(RemoteStep)

\* the errors of the calls that raise: to the bucket, to the facility
CallErrors ==
    {"get_object failed", "UnicodeDecodeError", "put_object failed",
     "execute_statement failed", "describe_statement failed"}

\* the run failed at the first statement seen FAILED or ABORTED: all before it
\* were seen FINISHED and none after it was called
FailedAtFirstFailing ==
    /\ pc = "failed"
    /\ Len(observed) = Len(calls)
    /\ SeenFailing(Len(observed))
    /\ \A i \in 1..(Len(observed) - 1) : SeenFinished(i)

\* C15 (termination under a fair facility): every run ends; it ends in success
\* with the four statements seen FINISHED, or in failure at the first statement
\* seen FAILED or ABORTED, or, where a call to the bucket or to the facility
\* itself raised, in failure with that call's error.
C15_Terminates ==
    /\ <>Ended
    /\ [](Ended =>
            \/ pc = "done" /\ AllFourFinished
            \/ FailedAtFirstFailing /\ error \notin CallErrors
            \/ pc = "failed" /\ error \in CallErrors /\ ~SeenFailing(Len(observed)))

C15_Witness == FailedAtFirstFailing /\ Len(calls) = 4 /\ branch = "array"

(***************************************************************************)
(* The inputs of convert_to_parquet: the file at input_path holds one      *)
(* record, a list of up to MaxItems records, a scalar, a text that is no   *)
(* JSON, or does not exist.                                                *)
(***************************************************************************)
\* the record of the worked example: numbers and a timestamp as strings
RecExample ==
    JObj(<< <<<<"i", "d">>, JStr(<<"7">>)>>,
            <<<<"a", "g", "e">>, JStr(<<"3", "0">>)>>,
            <<<<"c", "r", "e", "a", "t", "e", "d", "_", "a", "t">>, JStr(<<"2", "0", "2", "4", "-", "0", "1", "-", "0", "1", "T", "0", "0", ":", "0", "0", ":", "0", "0">>)>> >>)

\* numbers as numbers, and a column no rule names
RecPlain ==
    JObj(<< <<<<"i", "d">>, JInt(7)>>,
            <<<<"a", "g", "e">>, JInt(30)>>,
            <<<<"n", "a", "m", "e">>, JStr(<<"a">>)>> >>)

\* an id of 2^31, one more than int32 holds
RecWideId ==
    JObj(<< <<<<"i", "d">>, JWide(32768, 0)>>,
            <<<<"n", "a", "m", "e">>, JStr(<<"b">>)>> >>)

\* an id that is no number
RecTextId ==
    JObj(<< <<<<"i", "d">>, JStr(<<"a", "b", "c">>)>>,
            <<<<"a", "g", "e">>, JInt(1)>> >>)

\* no id and no created_at
RecNoId ==
    JObj(<< <<<<"a", "g", "e">>, JStr(<<"3", "0">>)>>,
            <<<<"n", "a", "m", "e">>, JStr(<<"c">>)>> >>)

\* a created_at that is no date
RecBadDate ==
    JObj(<< <<<<"i", "d">>, JInt(1)>>,
            <<<<"c", "r", "e", "a", "t", "e", "d", "_", "a", "t">>, JStr(<<"s", "o", "o", "n">>)>> >>)

\* an age of 2^32 + 7, as a string
RecWideAge ==
    JObj(<< <<<<"a", "g", "e">>, JStr(<<"4", "2", "9", "4", "9", "6", "7", "3", "0", "3">>)>>,
            <<<<"e", "m", "a", "i", "l">>, JStr(<<"e">>)>> >>)

MatRecords == {RecExample, RecPlain, RecWideId, RecTextId, RecNoId, RecBadDate, RecWideAge}

MatDocuments ==
    MatRecords \cup {JList(rs) : rs \in SeqsUpTo(MatRecords, MaxItems)} \cup {JInt(5)}

MatFiles ==
    {json_dumps(d) : d \in MatDocuments} \cup {<<"{", QUOTE, "i", "d", QUOTE>>, NoFile}

(***************************************************************************)
(* pandas values.  A DataFrame is [columns, dtypes, rows]: the column      *)
(* labels in order, the dtype of each column and, per record, the cell of  *)
(* each column.  An integer is held as limbs <<hi, lo>> (hi * 65536 + lo)  *)
(* wherever it may pass 2^31.                                              *)
(***************************************************************************)
NaN == <<"nan">>
NaT == <<"nat">>

ID == <<"i", "d">>
AGE == <<"a", "g", "e">>
CREATED_AT == <<"c", "r", "e", "a", "t", "e", "d", "_", "a", "t">>

IsInt(v) == v[1] \in {"int", "wide"}

Limbs(v) == IF v[1] = "int" THEN <<v[2] \div 65536, v[2] % 65536>> ELSE v[2]

\* -n
Negate(l) == IF l[2] = 0 THEN <<-l[1], 0>> ELSE <<-l[1] - 1, 65536 - l[2]>>

\* n is in the range of int32
FitsInt32(l) == l[1] >= -32768 /\ l[1] <= 32767

\* the C cast of n to int32: the low 32 bits, in two's complement
WrapInt32(l) == <<"int32", (((l[1] + 32768) % 65536) - 32768) * 65536 + l[2]>>

\* the position of label c in a sequence of labels (0 if it is not there)
IndexOf(cols, c) ==
    IF \E k \in 1..Len(cols) : cols[k] = c THEN CHOOSE k \in 1..Len(cols) : cols[k] = c ELSE 0

\* the keys of the records in order of first appearance
RECURSIVE AddKeys(_, _)
AddKeys(items, acc) ==
    IF items = <<>> THEN acc
    ELSE AddKeys(Tail(items),
                 IF IndexOf(acc, Head(items)[1]) = 0 THEN Append(acc, Head(items)[1]) ELSE acc)

RECURSIVE ColumnsOf(_, _)
ColumnsOf(recs, acc) ==
    IF recs = <<>> THEN acc ELSE ColumnsOf(Tail(recs), AddKeys(Head(recs)[2], acc))

\* rec.get(c, NaN): a record that lacks the key gives a missing cell
Field(rec, c) ==
    LET k == IndexOf([i \in 1..Len(rec[2]) |-> rec[2][i][1]], c)
    IN IF k = 0 THEN NaN ELSE rec[2][k][2]

\* the dtype pandas infers for a column of Python values
InferDtype(vs) ==
    IF \A i \in 1..Len(vs) : IsInt(vs[i]) THEN "int64"
    ELSE IF \A i \in 1..Len(vs) : vs[i][1] = "bool" THEN "bool"
    ELSE IF /\ \A i \in 1..Len(vs) : IsInt(vs[i]) \/ vs[i][1] \in {"nan", "null"}
            /\ \E i \in 1..Len(vs) : IsInt(vs[i])
         THEN "float64"
    ELSE "object"

\* the cell a value becomes in a column of dtype dt
Cell(dt, v) ==
    IF dt = "float64" THEN (IF IsInt(v) THEN <<"float", Limbs(v)>> ELSE NaN) ELSE v

\* pd.DataFrame(recs) for a list of dicts
DataFrame(recs) ==
    LET cols == ColumnsOf(recs, <<>>)
        dts == [k \in 1..Len(cols) |->
                   InferDtype([i \in 1..Len(recs) |-> Field(recs[i], cols[k])])]
    IN [columns |-> cols,
        dtypes |-> dts,
        rows |-> [i \in 1..Len(recs) |->
                     [k \in 1..Len(cols) |-> Cell(dts[k], Field(recs[i], cols[k]))]]]

\* 'c' in df.columns
HasColumn(frame, c) == IndexOf(frame.columns, c) # 0

\* df[c]: the cells of column c
Column(frame, c) ==
    [i \in 1..Len(frame.rows) |-> frame.rows[i][IndexOf(frame.columns, c)]]

\* df[c] = cells, of dtype dt
SetColumn(frame, c, dt, cells) ==
    LET k == IndexOf(frame.columns, c)
    IN [frame EXCEPT !.dtypes[k] = dt,
                     !.rows = [i \in 1..Len(frame.rows) |->
                                  [frame.rows[i] EXCEPT ![k] = cells[i]]]]

\* str.strip(): the text without its leading and trailing whitespace
RECURSIVE Strip(_)
Strip(cs) ==
    IF cs = <<>> THEN cs
    ELSE IF Head(cs) \in WHITESPACE THEN Strip(Tail(cs))
    ELSE IF cs[Len(cs)] \in WHITESPACE THEN Strip(SubSeq(cs, 1, Len(cs) - 1))
    ELSE cs

\* int(cs) of a str: <<ok, limbs>>; a sign and decimal digits, whitespace around
\* them allowed (digit grouping with "_" is not modelled)
IntOfStr(cs) ==
    LET t == Strip(cs)
        signed == t # <<>> /\ t[1] \in {"-", "+"}
        u == IF signed THEN Tail(t) ELSE t
    IN IF u = <<>> \/ \E i \in 1..Len(u) : ~IsDigit(u[i]) THEN <<FALSE, <<0, 0>>>>
       ELSE LET l == Limbs(ScanDigits(u, 1, 0)[2])
            IN <<TRUE, IF signed /\ t[1] = "-" THEN Negate(l) ELSE l>>

\* int(v) of one cell of an object column: <<exception, limbs>>
IntOfCell(v) ==
    CASE v[1] = "str" -> (IF IntOfStr(v[2])[1] THEN <<"", IntOfStr(v[2])[2]>>
                          ELSE <<"ValueError", <<0, 0>>>>)
      [] IsInt(v) -> <<"", Limbs(v)>>
      [] v[1] = "bool" -> <<"", <<0, IF v[2] THEN 1 ELSE 0>>>>
      [] v[1] = "nan" -> <<"ValueError", <<0, 0>>>>
      [] OTHER -> <<"TypeError", <<0, 0>>>>

\* the first exception of a sequence of <<exception, value>> ("" if none)
FirstRaised(rs) ==
    IF \E i \in 1..Len(rs) : rs[i][1] # ""
    THEN rs[CHOOSE i \in 1..Len(rs) : rs[i][1] # "" /\ \A j \in 1..(i - 1) : rs[j][1] = ""][1]
    ELSE ""

\* Series.astype('int32'): [exc, cells].  An int64 column is cast as C casts it.
\* A float64 column is one with a missing value, and refuses.  An object column is
\* converted cell by cell with int(); there a Python int out of range raises
\* or wraps, as the NumPy at hand has it (strict).
astype_int32(dt, cells, strict) ==
    CASE dt = "int64" ->
            [exc |-> "", cells |-> [i \in 1..Len(cells) |-> WrapInt32(Limbs(cells[i]))]]
      [] dt = "bool" ->
            [exc |-> "",
             cells |-> [i \in 1..Len(cells) |-> <<"int32", IF cells[i][2] THEN 1 ELSE 0>>]]
      [] dt = "float64" ->
            [exc |-> "IntCastingNaNError", cells |-> cells]
      [] dt = "object" ->
            LET ints == [i \in 1..Len(cells) |-> IntOfCell(cells[i])]
            IN IF FirstRaised(ints) # "" THEN [exc |-> FirstRaised(ints), cells |-> cells]
               ELSE IF strict /\ \E i \in 1..Len(cells) : ~FitsInt32(ints[i][2])
                    THEN [exc |-> "OverflowError", cells |-> cells]
               ELSE [exc |-> "", cells |-> [i \in 1..Len(cells) |-> WrapInt32(ints[i][2])]]

\* the two digits at cs[i], cs[i + 1]
TwoDigits(cs, i) == 10 * DigitVal(cs[i]) + DigitVal(cs[i + 1])

DaysIn(y, m) ==
    IF m = 2 THEN (IF y % 4 = 0 /\ (y % 100 # 0 \/ y % 400 = 0) THEN 29 ELSE 28)
    ELSE IF m \in {4, 6, 9, 11} THEN 30 ELSE 31

\* the ISO 8601 forms YYYY-MM-DD and YYYY-MM-DD(T| )HH:MM:SS: <<ok, fields>>
ParseIso(cs) ==
    LET digitsAt(ps) == \A p \in ps : IsDigit(cs[p])
        dateOk == /\ Len(cs) \in {10, 19}
                  /\ digitsAt({1, 2, 3, 4, 6, 7, 9, 10})
                  /\ cs[5] = "-" /\ cs[8] = "-"
        timeOk == Len(cs) = 10 \/ (/\ cs[11] \in {"T", " "}
                                   /\ digitsAt({12, 13, 15, 16, 18, 19})
                                   /\ cs[14] = ":" /\ cs[17] = ":")
    IN IF ~(dateOk /\ timeOk) THEN <<FALSE, <<>>>>
       ELSE LET y == 100 * TwoDigits(cs, 1) + TwoDigits(cs, 3)
                m == TwoDigits(cs, 6)
                d == TwoDigits(cs, 9)
                hms == IF Len(cs) = 10 THEN <<0, 0, 0>>
                       ELSE <<TwoDigits(cs, 12), TwoDigits(cs, 15), TwoDigits(cs, 18)>>
            IN IF /\ y >= 1 /\ m \in 1..12 /\ d \in 1..DaysIn(y, m)
                  /\ hms[1] <= 23 /\ hms[2] <= 59 /\ hms[3] <= 59
               THEN <<TRUE, <<y, m, d>> \o hms>>
               ELSE <<FALSE, <<>>>>

\* the Timestamp of one cell: <<exception, value>>; a missing value gives NaT
TimestampOfCell(v) ==
    CASE v[1] = "str" -> (IF ParseIso(v[2])[1] THEN <<"", <<"datetime64", ParseIso(v[2])[2]>>>>
                          ELSE <<"ValueError", NaT>>)
      [] v[1] \in {"nan", "null"} -> <<"", NaT>>

\* pd.to_datetime(series) for a column of strings and missing values: [exc, cells]
to_datetime(cells) ==
    LET ts == [i \in 1..Len(cells) |-> TimestampOfCell(cells[i])]
    IN IF FirstRaised(ts) # "" THEN [exc |-> FirstRaised(ts), cells |-> cells]
       ELSE [exc |-> "", cells |-> [i \in 1..Len(cells) |-> ts[i][2]]]

(***************************************************************************)
(* convert_to_parquet(input_path, output_path), statement by statement.    *)
(***************************************************************************)
\* while convert_to_parquet runs, the Glue job does not
JobIdle ==
    /\ args = CHOOSE a \in ArgSets : a.S3_BUCKET_NAME = "bkt"
    /\ store = <<>>
    /\ pc = "off"
    /\ file_content = Unset
    /\ branch = ""
    /\ ndjson_content = Unset
    /\ s3_path = ""
    /\ put_calls = <<>>
    /\ statements = <<>>
    /\ idx = 0
    /\ calls = <<>>
    /\ remote = <<>>
    /\ statement_id = 0
    /\ observed = <<>>
    /\ error = ""

MatInit ==
    /\ JobIdle
    /\ WhIdle
    /\ mpc = "load"
    /\ input_file \in MatFiles
    /\ data = Unset
    /\ df = Unset
    /\ output_file = NoFile
    /\ exit_status = ""
    /\ raised = ""

\* except Exception as e: print; sys.exit(1)
Exit1(e) == mpc' = "exit" /\ raised' = e /\ exit_status' = 1

\* with open(input_path, 'r') as f: data = json.load(f)
LoadInput ==
    /\ mpc = "load"
    /\ IF input_file = NoFile
       THEN Exit1("FileNotFoundError") /\ UNCHANGED data
       ELSE LET r == json_loads(input_file)
            IN IF r[1] THEN data' = r[2] /\ mpc' = "frame" /\ UNCHANGED <<raised, exit_status>>
               ELSE Exit1("JSONDecodeError") /\ UNCHANGED data
    /\ UNCHANGED <<input_file, df, output_file>>

\* if isinstance(data, dict): data = [data]; df = pd.DataFrame(data).
\* The data is one record, a list of records, or a scalar (which DataFrame refuses).
BuildFrame ==
    /\ mpc = "frame"
    /\ CASE data[1] = "obj" ->
              /\ data' = JList(<<data>>)
              /\ df' = DataFrame(<<data>>)
              /\ mpc' = "cast_id"
              /\ UNCHANGED <<raised, exit_status>>
         [] data[1] = "list" /\ (\A i \in 1..Len(data[2]) : data[2][i][1] = "obj") ->
              /\ df' = DataFrame(data[2])
              /\ mpc' = "cast_id"
              /\ UNCHANGED <<data, raised, exit_status>>
         [] data[1] \notin {"obj", "list"} ->
              Exit1("ValueError") /\ UNCHANGED <<data, df>>
    /\ UNCHANGED <<input_file, output_file>>

\* CastColumn without the test for the column: df[c] raises on an absent column
CastColumn_Unchecked(c, next) ==
    IF ~HasColumn(df, c) THEN Exit1("KeyError") /\ UNCHANGED df
    ELSE \E strict \in BOOLEAN :
            LET r == astype_int32(df.dtypes[IndexOf(df.columns, c)], Column(df, c), strict)
            IN IF r.exc # "" THEN Exit1(r.exc) /\ UNCHANGED df
               ELSE /\ df' = SetColumn(df, c, "int32", r.cells)
                    /\ mpc' = next
                    /\ UNCHANGED <<raised, exit_status>>

\* if c in df.columns: df[c] = df[c].astype('int32'), then on to `next`
CastColumn(c, next) ==
    IF ~HasColumn(df, c) THEN mpc' = next /\ UNCHANGED <<df, raised, exit_status>>
    ELSE \E strict \in BOOLEAN :
            LET r == astype_int32(df.dtypes[IndexOf(df.columns, c)], Column(df, c), strict)
            IN IF r.exc # "" THEN Exit1(r.exc) /\ UNCHANGED df
               ELSE /\ df' = SetColumn(df, c, "int32", r.cells)
                    /\ mpc' = next
                    /\ UNCHANGED <<raised, exit_status>>

\* lines 20-21
CastId ==
    /\ mpc = "cast_id"
    /\ CastColumn(ID, "cast_age")
    /\ UNCHANGED <<input_file, data, output_file>>

\* lines 22-23
CastAge ==
    /\ mpc = "cast_age"
    /\ CastColumn(AGE, "parse_created_at")
    /\ UNCHANGED <<input_file, data, output_file>>

\* if 'created_at' in df.columns: df['created_at'] = pd.to_datetime(df['created_at'])
ParseCreatedAt ==
    /\ mpc = "parse_created_at"
    /\ IF ~HasColumn(df, CREATED_AT) THEN mpc' = "write" /\ UNCHANGED <<df, raised, exit_status>>
       ELSE LET r == to_datetime(Column(df, CREATED_AT))
            IN IF r.exc # "" THEN Exit1(r.exc) /\ UNCHANGED df
               ELSE /\ df' = SetColumn(df, CREATED_AT, "datetime64[ns]", r.cells)
                    /\ mpc' = "write"
                    /\ UNCHANGED <<raised, exit_status>>
    /\ UNCHANGED <<input_file, data, output_file>>

\* df.to_parquet(output_path, engine='pyarrow'): the file holds the frame, or the
\* write raises and leaves no file or a truncated one
WriteParquet ==
    /\ mpc = "write"
    /\ \/ /\ output_file' = df
          /\ mpc' = "done"
          /\ exit_status' = 0
          /\ UNCHANGED raised
       \/ /\ output_file' \in {NoFile, <<"<truncated>">>}
          /\ Exit1("OSError")
    /\ UNCHANGED <<input_file, data, df>>

MatNext ==
    \/ LoadInput /\ UNCHANGED <<vars, whVars>>
    \/ BuildFrame /\ UNCHANGED <<vars, whVars>>
    \/ CastId /\ UNCHANGED <<vars, whVars>>
    \/ CastAge /\ UNCHANGED <<vars, whVars>>
    \/ ParseCreatedAt /\ UNCHANGED <<vars, whVars>>
    \/ WriteParquet /\ UNCHANGED <<vars, whVars>>

MatSpec == MatInit /\ [][MatNext]_<<vars, matVars, whVars>>

(***************************************************************************)
(* The materialiser's claims.                                              *)
(***************************************************************************)
RuleColumns == {ID, AGE, CREATED_AT}

\* pd.DataFrame(data) has been built (data is a list from then on)
Framed == mpc \notin {"off", "load", "frame"} /\ data[1] = "list"

\* the frame as it was built from the records, before any rule
Frame0 == DataFrame(data[2])

\* the columns and the cells outside the rules are those of the records
C12_FrameKept ==
    Framed =>
        LET F == Frame0 IN
        /\ df.columns = F.columns
        /\ \A k \in 1..Len(F.columns) :
              F.columns[k] \notin RuleColumns =>
                  /\ df.dtypes[k] = F.dtypes[k]
                  /\ \A i \in 1..Len(F.rows) : df.rows[i][k] = F.rows[i][k]
        /\ mpc = "done" => output_file = df

\* at the statement of a rule whose column is absent, nothing is raised and the
\* frame is left as it is
C12_AbsentSkipped ==
    \A st \in {<<"cast_id", ID>>, <<"cast_age", AGE>>, <<"parse_created_at", CREATED_AT>>} :
        (mpc = st[1] /\ ~HasColumn(df, st[2])) => (mpc' # "exit" /\ df' = df)

\* C12 (materialiser rule application): a rule is applied only to a column that
\* is present: at a rule whose column is absent from every record nothing is
\* raised and the column stays absent from the frame and from the file written,
\* and every column no rule names reaches the file with the dtype and the values
\* the records gave it.
C12_RuleApplication == [](C12_FrameKept) /\ [][C12_AbsentSkipped]_<<vars, matVars, whVars>>

\* a file was written from records without id: age was cast, name passed through
C12_Witness ==
    /\ mpc = "done"
    /\ output_file = df
    /\ ~HasColumn(df, ID) /\ ~HasColumn(df, CREATED_AT)
    /\ HasColumn(df, AGE) /\ df.dtypes[IndexOf(df.columns, AGE)] = "int32"
    /\ \E k \in 1..Len(df.columns) : df.columns[k] \notin RuleColumns

\* the raw values of column c in the records
RawColumn(c) == [i \in 1..Len(data[2]) |-> Field(data[2][i], c)]

\* v cannot become an int32: a string that is no number, or a number (as a
\* number or as a string) outside the range of int32
NoInt32(v) ==
    \/ v[1] = "str" /\ ~IntOfStr(v[2])[1]
    \/ v[1] = "str" /\ IntOfStr(v[2])[1] /\ ~FitsInt32(IntOfStr(v[2])[2])
    \/ IsInt(v) /\ ~FitsInt32(Limbs(v))

\* v cannot become a timestamp: a string that is no date
NoTimestamp(v) == v[1] = "str" /\ ~ParseIso(v[2])[1]

\* a rule column that is present holds a value its rule cannot coerce
HoldsUncoercible ==
    \/ \E c \in {ID, AGE} : \E i \in 1..Len(data[2]) : NoInt32(RawColumn(c)[i])
    \/ \E i \in 1..Len(data[2]) : NoTimestamp(RawColumn(CREATED_AT)[i])

\* C16 (materialiser coercion failure): when a present rule column holds a value
\* that cannot be coerced to its declared type, the process exits with status 1
\* and no output file is written.
C16_CoercionFailureExits ==
    (mpc \in {"done", "exit"} /\ Framed /\ HoldsUncoercible) =>
        (exit_status = 1 /\ output_file = NoFile)

(***************************************************************************)
(* The warehouse.  A table is [exists, rws]; a row gives, for the columns  *)
(* id, name, email, age, created_at that the MERGE names, the value of the *)
(* record's key or NULL.  The statements act as their SQL says.            *)
(***************************************************************************)
NAME == <<"n", "a", "m", "e">>
EMAIL == <<"e", "m", "a", "i", "l">>
TableColumns == <<ID, NAME, EMAIL, AGE, CREATED_AT>>

NoTable == [exists |-> FALSE, rws |-> <<>>]
Table(rs) == [exists |-> TRUE, rws |-> rs]

\* the row COPY ... FORMAT AS JSON 'auto' loads from one object: a column whose
\* key the object lacks is NULL
RowOf(rec) ==
    [k \in 1..Len(TableColumns) |->
        IF Field(rec, TableColumns[k])[1] = "nan" THEN JNull ELSE Field(rec, TableColumns[k])]

\* the rows COPY loads from a text of one-line JSON objects: <<ok, rows>>
CopyRows(text) ==
    LET lines == SplitLines(text)
        docs == [j \in 1..Len(lines) |-> json_loads(lines[j])]
    IN IF \A j \in 1..Len(lines) : docs[j][1] /\ docs[j][2][1] = "obj"
       THEN <<TRUE, [j \in 1..Len(lines) |-> RowOf(docs[j][2])]>>
       ELSE <<FALSE, <<>>>>

\* ON final.id = staging.id: NULL equals nothing
Matches(t, s) == t[1][1] # "null" /\ s[1][1] = t[1][1] /\ s[1][2] = t[1][2]

\* MERGE refuses when several source rows match one target row
MultipleMatches(F, S) ==
    \E i \in 1..Len(F) : \E j, k \in 1..Len(S) : j # k /\ Matches(F[i], S[j]) /\ Matches(F[i], S[k])

\* MERGE INTO F USING S: WHEN MATCHED THEN UPDATE SET name, email, age, created_at;
\* WHEN NOT MATCHED THEN INSERT
MergeRows(F, S) ==
    LET updated == [i \in 1..Len(F) |->
                       IF \E j \in 1..Len(S) : Matches(F[i], S[j])
                       THEN <<F[i][1]>> \o Tail(S[CHOOSE j \in 1..Len(S) : Matches(F[i], S[j])])
                       ELSE F[i]]
        unmatched(s) == \A i \in 1..Len(F) : ~Matches(F[i], s)
    IN updated \o SelectSeq(S, unmatched)

\* the body of the object at an s3:// location (Unset if there is none)
ObjectAt(path) ==
    LET ks == {k \in DOMAIN store : S3Path(args.S3_BUCKET_NAME, k) = path}
    IN IF ks = {} THEN Unset ELSE store[CHOOSE k \in ks : TRUE]

\* the statement can finish: its tables exist, its source loads, its matches are single
CanFinish(sql) ==
    CASE sql[1] = "TRUNCATE TABLE " -> tables[sql[2]].exists
      [] sql[1] = "COPY " ->
            tables[sql[2]].exists /\ ObjectAt(sql[4]) # Unset /\ CopyRows(ObjectAt(sql[4]))[1]
      [] sql[1] = "CREATE TABLE IF NOT EXISTS " -> tables[sql[4]].exists
      [] sql[1] = "MERGE INTO " ->
            /\ tables[sql[2]].exists /\ tables[sql[4]].exists
            /\ ~MultipleMatches(tables[sql[2]].rws, tables[sql[4]].rws)

\* the tables after the statement has finished
Effect(sql) ==
    CASE sql[1] = "TRUNCATE TABLE " -> [tables EXCEPT ![sql[2]] = Table(<<>>)]
      [] sql[1] = "COPY " ->
            [tables EXCEPT ![sql[2]] = Table(@.rws \o CopyRows(ObjectAt(sql[4]))[2])]
      [] sql[1] = "CREATE TABLE IF NOT EXISTS " ->
            IF tables[sql[2]].exists THEN tables ELSE [tables EXCEPT ![sql[2]] = Table(<<>>)]
      [] sql[1] = "MERGE INTO " ->
            [tables EXCEPT ![sql[2]] = Table(MergeRows(@.rws, tables[sql[4]].rws))]

(***************************************************************************)
(* Re-runs.  The facility applies a statement to the tables when it        *)
(* reports it FINISHED, and cannot report FINISHED a statement its tables  *)
(* refuse.  Once a run has ended and the facility holds nothing unfinished *)
(* the job may be started again, on the same bucket and the same tables.   *)
(***************************************************************************)
MaxRuns == 2

WhRemoteStep ==
    /\ RemoteStep
    /\ LET id == CHOOSE i \in 1..Len(remote) : remote'[i] # remote[i]
       IN IF remote'[id].Status = "FINISHED"
          THEN CanFinish(calls[id].sql) /\ tables' = Effect(calls[id].sql)
          ELSE tables' = tables
    /\ UNCHANGED <<run, initial_final>>

\* the job is started again: a new process, the same arguments, bucket and tables
Rerun ==
    /\ pc \in {"done", "failed"}
    /\ \A i \in 1..Len(remote) : remote[i].Status \in Terminal
    /\ run < MaxRuns
    /\ run' = run + 1
    /\ pc' = "read"
    /\ file_content' = Unset
    /\ branch' = ""
    /\ ndjson_content' = Unset
    /\ s3_path' = ""
    /\ put_calls' = <<>>
    /\ statements' = <<>>
    /\ idx' = 0
    /\ calls' = <<>>
    /\ remote' = <<>>
    /\ statement_id' = 0
    /\ observed' = <<>>
    /\ error' = ""
    /\ UNCHANGED <<args, store, tables, initial_final>>

\* a record without an id
RecNoKey ==
    JObj(<< <<<<"n", "a", "m", "e">>, JStr(<<"n">>)>> >>)

\* a row the final table holds for id 1, and a row an earlier run left in staging
OldRow == <<JInt(1), JStr(<<"o">>), JNull, JNull, JNull>>
StaleRow == <<JInt(2), JStr(<<"s">>), JNull, JNull, JNull>>

RerunBodies ==
    { ExampleInput,
      json_dumps_Compact(Rec1),
      json_dumps_Compact(JList(<<Rec1, RecNoKey>>)),
      <<"[", "1", ",">> }

RerunInit ==
    /\ StartOn(RerunBodies)
    /\ MatIdle
    /\ args.S3_BUCKET_NAME = "bkt"
    /\ run = 1
    /\ \E stg \in {Table(<<>>), Table(<<StaleRow>>)} :
       \E fin \in {NoTable, Table(<<>>), Table(<<OldRow>>)} :
            /\ tables = (args.STAGING_TABLE :> stg) @@ (args.FINAL_TABLE :> fin)
            /\ initial_final = fin

RerunNext ==
    \/ ReadSource /\ UNCHANGED <<matVars, whVars>>
    \/ Classify /\ UNCHANGED <<matVars, whVars>>
    \/ PutProcessed /\ UNCHANGED <<matVars, whVars>>
    \/ BuildPlan /\ UNCHANGED <<matVars, whVars>>
    \/ Submit /\ UNCHANGED <<matVars, whVars>>
    \/ Poll /\ UNCHANGED <<matVars, whVars>>
    \/ Sleep /\ UNCHANGED <<matVars, whVars>>
    \/ WhRemoteStep /\ UNCHANGED matVars
    \/ Rerun /\ UNCHANGED matVars

RerunSpec == RerunInit /\ [][RerunNext]_<<vars, matVars, whVars>>

\* how often row r occurs in the rows rs
CountOf(rs, r) == Cardinality({i \in 1..Len(rs) : rs[i] = r})

\* the same rows, each as often
SameRows(A, B) ==
    /\ Len(A) = Len(B)
    /\ \A i \in 1..Len(A) : CountOf(A, A[i]) = CountOf(B, A[i])

\* the rows of the load source the run gave to COPY
LoadedRows == CopyRows(ObjectAt(s3_path))[2]

\* the final table after one successful run from the initial final table: the
\* merge of the load source into it (into an empty table if it did not exist)
SingleRun == MergeRows(initial_final.rws, LoadedRows)

\* a run that fails undoes nothing: the step that fails leaves the tables as the
\* steps that finished before it left them
NoRollback == [][(pc # "failed" /\ pc' = "failed") => tables' = tables]_<<vars, matVars, whVars>>

\* C17 (re-run idempotency): running the whole plan again on the same load
\* source, after a run that failed at any step or after one that succeeded,
\* ends, when all its steps finish, with the final-table rows of a single
\* successful run from the same initial final table.
C17_RerunIdempotent ==
    pc = "done" => SameRows(tables[args.FINAL_TABLE].rws, SingleRun)

====
